---- MODULE Spec2Model ----
(***************************************************************************)
(* Gandiva Projector (cpp/src/gandiva/projector.cc): the projector cache   *)
(* key (ProjectorCacheKey), the build/cache/reuse life cycle of            *)
(* Projector::Make, run by several caller threads against the one          *)
(* process-wide cache, and Projector::Evaluate with its buffer allocation  *)
(* (AllocArrayData) and capacity validation (ValidateArrayDataCapacity).   *)
(*                                                                         *)
(* Strings are sequences of one-character strings, so that                 *)
(* std::string::find and the hashing of a string are computed, not         *)
(* assumed.  Pointers are records with an id field; id 0 is nullptr.       *)
(***************************************************************************)
EXTENDS Integers, Sequences, FiniteSets, TLC

\* ------------------------------------------------------------------ bounds
\* Caller threads that may be inside Projector::Make at the same time.
NumThreads == 2
\* Make calls started in one run, over all threads (the cache's capacity is
\* far above this, so the cache never evicts within a run).
MaxCalls == 2

\* The largest row count of a buffer-shape computation.
MaxRows == 9
\* The largest row count of a pair of capacity checks under comparison.
MaxCapRows == 1

Threads == 1..NumThreads

\* ------------------------------------------------------- program constants
\* static const int kSeedValue = 4;
kSeedValue == 4
\* ... % 16 in UpdateUniqifier
kNumShards == 16
\* size_t arithmetic, narrowed to 16 bits (the checker's integers are 32 bits
\* wide); every hash below is taken modulo this.
HashMod == 65536

\* --------------------------------------------------------------- objects
NullPtr == [id |-> 0]

IsNull(p) == p.id = 0

\* SelectionVector::Mode, with static_cast<size_t>(mode).
Modes == {"MODE_NONE", "MODE_UINT16"}

ModeOrdinal(mode) == IF mode = "MODE_NONE" THEN 0 ELSE 1

\* arrow::Schema objects: SchemaA and SchemaA2 are two objects with the same
\* fields, SchemaB has other fields.
FieldA == [name |-> <<"a">>, type |-> <<"i", "3", "2">>]

FieldS == [name |-> <<"s">>, type |-> <<"u", "8">>]

SchemaA == [id |-> 1, fields |-> <<FieldA, FieldS>>]

SchemaA2 == [id |-> 2, fields |-> <<FieldA, FieldS>>]

SchemaB == [id |-> 3, fields |-> <<FieldA>>]

\* Schema::Equals(other, check_metadata): structural, on names and types.
SchemaEquals(a, b, check_metadata) == a.fields = b.fields

\* Schema::ToString(): "name: type" per field, one per line.
RECURSIVE SchemaFieldsToString(_, _)
SchemaFieldsToString(fields, i) ==
  IF i > Len(fields) THEN <<>>
  ELSE (IF i > 1 THEN <<"\n">> ELSE <<>>)
       \o fields[i].name \o <<":", " ">> \o fields[i].type
       \o SchemaFieldsToString(fields, i + 1)

SchemaToString(schema) == SchemaFieldsToString(schema.fields, 1)

\* gandiva::Configuration objects: ConfO and ConfO2 are two objects with equal
\* settings, ConfN differs.
ConfO == [id |-> 1, optimize |-> TRUE]

ConfO2 == [id |-> 2, optimize |-> TRUE]

ConfN == [id |-> 3, optimize |-> FALSE]

\* Configuration::operator== compares the settings.
ConfigurationEquals(a, b) == a.optimize = b.optimize

\* gandiva::Expression objects: a function call with its return type, its
\* name, the field it reads and the result field it declares.
ExprAdd == [id |-> 1, ret |-> <<"i">>, fn |-> <<"a", "d", "d">>, arg |-> <<"a">>,
            result |-> [name |-> <<"r">>, type |-> <<"i", "3", "2">>]]

\* another object with the same canonical string as ExprAdd
ExprAdd2 == [id |-> 2, ret |-> <<"i">>, fn |-> <<"a", "d", "d">>, arg |-> <<"a">>,
             result |-> [name |-> <<"r">>, type |-> <<"i", "3", "2">>]]

\* "b like(s)": the re2 pattern match
ExprLike == [id |-> 3, ret |-> <<"b">>, fn |-> <<"l", "i", "k", "e">>, arg |-> <<"s">>,
             result |-> [name |-> <<"m">>, type |-> <<"b">>]]

\* "b ilike(s)": holds "like(" but not " like("
ExprILike == [id |-> 4, ret |-> <<"b">>, fn |-> <<"i", "l", "i", "k", "e">>, arg |-> <<"s">>,
              result |-> [name |-> <<"n">>, type |-> <<"b">>]]

\* reads a field no schema declares: the validator rejects it
ExprBad == [id |-> 5, ret |-> <<"i">>, fn |-> <<"a", "d", "d">>, arg |-> <<"z">>,
            result |-> [name |-> <<"q">>, type |-> <<"i", "3", "2">>]]

\* Expression::ToString(): "<return type> <function>(<argument>)".
ExprToString(expr) == expr.ret \o <<" ">> \o expr.fn \o <<"(">> \o expr.arg \o <<")">>

\* ---------------------------------------------------------------- hashing
CharCode(c) ==
  CASE c = " " -> 32 [] c = "(" -> 40 [] c = ")" -> 41 [] c = ":" -> 58
    [] c = "\n" -> 10 [] c = "2" -> 50 [] c = "3" -> 51 [] c = "8" -> 56
    [] c = "a" -> 97 [] c = "b" -> 98 [] c = "d" -> 100 [] c = "e" -> 101
    [] c = "i" -> 105 [] c = "k" -> 107 [] c = "l" -> 108 [] c = "s" -> 115
    [] c = "u" -> 117 [] c = "z" -> 122 [] OTHER -> 63

\* std::hash<std::string>: a polynomial over the characters.
RECURSIVE StdHashStringFrom(_, _, _)
StdHashStringFrom(s, i, h) ==
  IF i > Len(s) THEN h
  ELSE StdHashStringFrom(s, i + 1, (h * 31 + CharCode(s[i])) % HashMod)

StdHashString(s) == StdHashStringFrom(s, 1, 7)

RECURSIVE BitXor(_, _)
BitXor(a, b) ==
  IF a = 0 THEN b
  ELSE IF b = 0 THEN a
  ELSE (((a % 2) + (b % 2)) % 2) + 2 * BitXor(a \div 2, b \div 2)

\* arrow::internal::hash_combine(seed, v), on the hash h of v:
\*   seed ^= h + 0x9e3779b9 + (seed << 6) + (seed >> 2)
\* (0x9e3779b9 % HashMod = 31161).
HashCombine(seed, h) ==
  BitXor(seed, (h + 31161 + ((seed * 64) % HashMod) + (seed \div 4)) % HashMod)

\* Configuration::Hash(): over the settings.
ConfigurationHash(conf) == HashCombine(0, IF conf.optimize THEN 1 ELSE 0)

\* ------------------------------------------------------ ProjectorCacheKey
\* expr.find(" like(")
kLikeSignature == <<" ", "l", "i", "k", "e", "(">>

\* std::string::find(pat) != npos
StringContains(s, pat) ==
  \E i \in 1..(Len(s) - Len(pat) + 1) : SubSeq(s, i, i + Len(pat) - 1) = pat

\* The mutant of UpdateUniqifier that forgets the "% 16".
UpdateUniqifier_NoModulo(uniqifier, expr, tid_hash) ==
  IF uniqifier = 0
  THEN IF StringContains(expr, kLikeSignature) THEN tid_hash ELSE uniqifier
  ELSE uniqifier

\* ProjectorCacheKey::UpdateUniqifier: the new value of uniqifier_;
\* tid_hash is std::hash<std::thread::id>()(std::this_thread::get_id()).
UpdateUniqifier(uniqifier, expr, tid_hash) ==
  IF uniqifier = 0
  THEN IF StringContains(expr, kLikeSignature)
       THEN tid_hash % kNumShards
       ELSE uniqifier
  ELSE uniqifier

\* The constructor's loop over expression_vector, from element i on: the
\* strings pushed, the running hash and uniqifier_.
RECURSIVE KeyExprLoop(_, _, _, _)
KeyExprLoop(expression_vector, i, acc, tid_hash) ==
  IF i > Len(expression_vector) THEN acc
  ELSE LET expr_as_string == ExprToString(expression_vector[i])
       IN  KeyExprLoop(expression_vector, i + 1,
             [strings |-> Append(acc.strings, expr_as_string),
              result |-> HashCombine(acc.result, StdHashString(expr_as_string)),
              uniqifier |-> UpdateUniqifier(acc.uniqifier, expr_as_string, tid_hash)],
             tid_hash)

\* The mutant of the constructor that folds the schema pointer, not the
\* schema's string, into the hash.
ProjectorCacheKey_HashesPointer(schema, configuration, expression_vector, mode, tid_hash) ==
  LET loop == KeyExprLoop(expression_vector, 1,
                [strings |-> <<>>, result |-> kSeedValue, uniqifier |-> 0], tid_hash)
      r1 == HashCombine(loop.result, ModeOrdinal(mode))
      r2 == HashCombine(r1, ConfigurationHash(configuration))
      r3 == HashCombine(r2, schema.id)
      r4 == HashCombine(r3, loop.uniqifier)
  IN  [schema_ |-> schema, configuration_ |-> configuration, mode_ |-> mode,
       expressions_as_strings_ |-> loop.strings, hash_code_ |-> r4,
       uniqifier_ |-> loop.uniqifier]

\* ProjectorCacheKey::ProjectorCacheKey, run on a thread whose id hashes to
\* tid_hash.
ProjectorCacheKey(schema, configuration, expression_vector, mode, tid_hash) ==
  LET loop == KeyExprLoop(expression_vector, 1,
                [strings |-> <<>>, result |-> kSeedValue, uniqifier |-> 0], tid_hash)
      r1 == HashCombine(loop.result, ModeOrdinal(mode))
      r2 == HashCombine(r1, ConfigurationHash(configuration))
      r3 == HashCombine(r2, StdHashString(SchemaToString(schema)))
      r4 == HashCombine(r3, loop.uniqifier)
  IN  [schema_ |-> schema, configuration_ |-> configuration, mode_ |-> mode,
       expressions_as_strings_ |-> loop.strings, hash_code_ |-> r4,
       uniqifier_ |-> loop.uniqifier]

\* ProjectorCacheKey::Hash
KeyHash(key) == key.hash_code_

\* The mutant of operator== that forgets to compare uniqifier_.
KeyEquals_NoUniqifier(a, b) ==
  IF ~SchemaEquals(a.schema_, b.schema_, TRUE) THEN FALSE
  ELSE IF ~ConfigurationEquals(a.configuration_, b.configuration_) THEN FALSE
  ELSE IF a.expressions_as_strings_ # b.expressions_as_strings_ THEN FALSE
  ELSE IF a.mode_ # b.mode_ THEN FALSE
  ELSE TRUE

\* ProjectorCacheKey::operator==
KeyEquals(a, b) ==
  IF ~SchemaEquals(a.schema_, b.schema_, TRUE) THEN FALSE
  ELSE IF ~ConfigurationEquals(a.configuration_, b.configuration_) THEN FALSE
  ELSE IF a.expressions_as_strings_ # b.expressions_as_strings_ THEN FALSE
  ELSE IF a.mode_ # b.mode_ THEN FALSE
  ELSE IF a.uniqifier_ # b.uniqifier_ THEN FALSE
  ELSE TRUE

\* ---------------------------------------------------------------- Status
StatusOK == [code |-> "OK", msg |-> ""]

StatusInvalid(msg) == [code |-> "Invalid", msg |-> msg]

\* a call that has not returned yet
StatusPending == [code |-> "Pending", msg |-> ""]

\* ------------------------------------------------ external collaborators
\* ExprValidator::Validate(expr) against the schema: the field the
\* expression reads must be declared.
ExprValidatorValidate(schema, expr) ==
  IF \E i \in 1..Len(schema.fields) : schema.fields[i].name = expr.arg
  THEN StatusOK
  ELSE [code |-> "ExpressionValidationError", msg |-> "field not in schema"]

\* Cache<ProjectorCacheKey, std::shared_ptr<Projector>>: a set of entries
\* [key, value], value a ValueCacheObject [module, cost]; a hash map finds an
\* entry by the key's hash and then by operator==.
CacheFind(c, key) ==
  {e \in c : KeyHash(e.key) = KeyHash(key) /\ KeyEquals(e.key, key)}

\* Cache::GetModule(key): the cached module, or nullptr.
GetModule(c, key) ==
  IF CacheFind(c, key) = {} THEN NullPtr
  ELSE (CHOOSE e \in CacheFind(c, key) : TRUE).value.module

\* Cache::PutModule(key, value): the last write under a key wins.
PutModule(c, key, value) ==
  (c \ CacheFind(c, key)) \cup {[key |-> key, value |-> value]}

\* The build latency the clock measures (milliseconds).
ElapsedMillis == {2}

\* --------------------------------------------------------- Projector::Make
\* The mutant of the argument checks that forgets exprs.empty().
MakeArgsCheck_NoEmptyCheck(schema, exprs, configuration) ==
  IF IsNull(schema) THEN StatusInvalid("Schema cannot be null")
  ELSE IF IsNull(configuration) THEN StatusInvalid("Configuration cannot be null")
  ELSE StatusOK

\* Make's three argument checks, in order.
MakeArgsCheck(schema, exprs, configuration) ==
  IF IsNull(schema) THEN StatusInvalid("Schema cannot be null")
  ELSE IF exprs = <<>> THEN StatusInvalid("Expressions cannot be empty")
  ELSE IF IsNull(configuration) THEN StatusInvalid("Configuration cannot be null")
  ELSE StatusOK

\* One event of a call's trace: a call of a collaborator.
Ev(op, arg) == [op |-> op, arg |-> arg]

\* The mutant of the validation loop that goes on after a failure and
\* reports success.
RECURSIVE MakeValidateLoop_IgnoresFailure(_, _, _, _)
MakeValidateLoop_IgnoresFailure(schema, exprs, i, events) ==
  IF i > Len(exprs) THEN [status |-> StatusOK, events |-> events]
  ELSE MakeValidateLoop_IgnoresFailure(schema, exprs, i + 1,
                                       Append(events, Ev("Validate", i)))

\* for (auto& expr : exprs) ARROW_RETURN_NOT_OK(expr_validator.Validate(expr)),
\* from element i on: the status and the Validate calls made.
RECURSIVE MakeValidateLoop(_, _, _, _)
MakeValidateLoop(schema, exprs, i, events) ==
  IF i > Len(exprs) THEN [status |-> StatusOK, events |-> events]
  ELSE LET st == ExprValidatorValidate(schema, exprs[i])
       IN  IF st.code # "OK"
           THEN [status |-> st, events |-> Append(events, Ev("Validate", i))]
           ELSE MakeValidateLoop(schema, exprs, i + 1,
                                 Append(events, Ev("Validate", i)))

\* output_fields.push_back(expr->result()) for each expression, in order.
MakeOutputFields(exprs) == [i \in 1..Len(exprs) |-> exprs[i].result]

\* new Projector(std::move(llvm_gen), schema, output_fields, configuration)
NewProjector(id, llvm_generator, schema, output_fields, configuration) ==
  [id |-> id, llvm_generator_ |-> llvm_generator, schema_ |-> schema,
   output_fields_ |-> output_fields, configuration_ |-> configuration]

\* The mutant of the lookup result that never reports a hit.
MakeCachedProjector_AlwaysMiss(c, key) == NullPtr

\* std::shared_ptr<Projector> cached_projector = cache.GetModule(cache_key)
MakeCachedProjector(c, key) == GetModule(c, key)

\* The mutant of the registration that keeps an entry already present.
MakeRegister_KeepsPresent(c, key, module, cost) ==
  IF CacheFind(c, key) # {} THEN c
  ELSE PutModule(c, key, [module |-> module, cost |-> cost])

\* The mutant of the registration that registers nothing.
MakeRegister_Skips(c, key, module, cost) == c

\* ValueCacheObject value_cache(*projector, elapsed);
\* cache.PutModule(cache_key, value_cache);
MakeRegister(c, key, module, cost) ==
  PutModule(c, key, [module |-> module, cost |-> cost])

\* The mutant of the compile step's error handling that tries again.
MakeAfterBuild_Retries(ok) == IF ok THEN "insert" ELSE "build"

\* The mutant of the compile step's error handling that goes on to build
\* and register the projector whatever the compile returned.
MakeAfterBuild_IgnoresFailure(ok) == "insert"

\* ARROW_RETURN_NOT_OK(llvm_gen->Build(...)): where the call goes next.
MakeAfterBuild(ok) == IF ok THEN "insert" ELSE "done"

\* The build requests callers make.
Requests ==
  { [schema |-> NullPtr, exprs |-> <<ExprAdd>>, configuration |-> ConfO, mode |-> "MODE_NONE"],
    [schema |-> SchemaA, exprs |-> <<>>, configuration |-> ConfO, mode |-> "MODE_NONE"],
    [schema |-> SchemaA, exprs |-> <<ExprAdd>>, configuration |-> NullPtr, mode |-> "MODE_NONE"],
    [schema |-> SchemaA, exprs |-> <<ExprAdd>>, configuration |-> ConfO, mode |-> "MODE_NONE"],
    [schema |-> SchemaA2, exprs |-> <<ExprAdd2>>, configuration |-> ConfO2, mode |-> "MODE_NONE"],
    [schema |-> SchemaA, exprs |-> <<ExprAdd>>, configuration |-> ConfO, mode |-> "MODE_UINT16"],
    [schema |-> SchemaA, exprs |-> <<ExprLike>>, configuration |-> ConfO, mode |-> "MODE_NONE"],
    [schema |-> SchemaA, exprs |-> <<ExprAdd, ExprBad, ExprLike>>, configuration |-> ConfO,
     mode |-> "MODE_NONE"] }

\* Values std::hash<std::thread::id> may give a thread: 5 and 21 fall in the
\* same shard, 16 in shard 0.  Thread 1 is the thread whose id hashes to 5;
\* distinct threads have distinct ids, hence distinct values here.
ThreadIdHashes == {5, 16, 21}

\* ------------------------------------------------ output types and buffers
\* arrow::DataType::id() of a field type, types being written as in
\* Schema::ToString: "i32" int32, "u8" utf8 (string), "b" bool, "d"
\* decimal128, "l" list.
DataTypeId(type) ==
  CASE type = <<"i", "3", "2">> -> "INT32"
    [] type = <<"u", "8">> -> "STRING"
    [] type = <<"b">> -> "BOOL"
    [] type = <<"d">> -> "DECIMAL"
    [] type = <<"l">> -> "LIST"

\* arrow::is_binary_like(type_id)
is_binary_like(type_id) == type_id \in {"BINARY", "STRING"}

\* arrow::is_primitive(type_id)
is_primitive(type_id) == type_id \in {"BOOL", "INT32"}

\* arrow::FixedWidthType::bit_width()
bit_width(type) ==
  CASE DataTypeId(type) = "BOOL" -> 1
    [] DataTypeId(type) = "INT32" -> 32
    [] DataTypeId(type) = "DECIMAL" -> 128

\* arrow::bit_util::BytesForBits(bits)
BytesForBits(bits) == (bits + 7) \div 8

\* The fields an expression may declare as its result.
FieldI32 == [name |-> <<"r">>, type |-> <<"i", "3", "2">>]

FieldBool == [name |-> <<"m">>, type |-> <<"b">>]

FieldDec == [name |-> <<"c">>, type |-> <<"d">>]

FieldStr == [name |-> <<"t">>, type |-> <<"u", "8">>]

FieldList == [name |-> <<"v">>, type |-> <<"l">>]

\* An arrow::Buffer: its capacity in bytes and whether it is a
\* ResizableBuffer.
Buffer(capacity, resizable) == [capacity |-> capacity, resizable |-> resizable]

\* arrow::ArrayData::Make(type, length, buffers)
ArrayDataMake(type, length, buffers) ==
  [id |-> 1, type |-> type, length |-> length, buffers |-> buffers]

\* arrow::MemoryPool objects: one that serves every request of a run, one
\* that has no memory left beyond 64 bytes.
PoolBig == [id |-> 1, limit |-> 4096]

PoolSmall == [id |-> 2, limit |-> 64]

\* Buffers are allocated with their capacity padded to a multiple of 64.
RoundUpToMultipleOf64(num) == ((num + 63) \div 64) * 64

\* arrow::AllocateBuffer / AllocateResizableBuffer (size, pool): the buffer,
\* or no buffer when the pool cannot serve the request.
AllocateBuffer(size, pool, resizable) ==
  IF RoundUpToMultipleOf64(size) > pool.limit
  THEN [status |-> [code |-> "OutOfMemory", msg |-> "malloc failed"], buffer |-> NullPtr]
  ELSE [status |-> StatusOK, buffer |-> Buffer(RoundUpToMultipleOf64(size), resizable)]

\* ------------------------------------------------ Projector::AllocArrayData
\* The mutant of the bitmap size that rounds the bits down to bytes.
AllocBitmapSize_RoundsDown(num_records) == num_records \div 8

\* int64_t size = BytesForBits(num_records)
AllocBitmapSize(num_records) == BytesForBits(num_records)

\* auto offsets_len = BytesForBits((num_records + 1) * 32)
AllocOffsetsLen(num_records) == BytesForBits((num_records + 1) * 32)

\* data_len = BytesForBits(num_records * fw_type.bit_width())
AllocDataLen(num_records, type) == BytesForBits(num_records * bit_width(type))

\* The mutant of the type test that gives every type a data buffer.
AllocHasDataLen_AnyType(type_id) == TRUE

\* The types the if / else if chain on type_id gives a data_len; the else
\* returns "Unsupported output data type".
AllocHasDataLen(type_id) ==
  is_primitive(type_id) \/ type_id = "DECIMAL" \/ is_binary_like(type_id)

\* The result of AllocArrayData: the status, *array_data, and the sizes
\* asked of the pool, in order.
AllocResult(st, array_data, sizes) ==
  [status |-> st, array_data |-> array_data, sizes |-> sizes]

\* Projector::AllocArrayData(type, num_records, pool, array_data)
AllocArrayData(type, num_records, pool) ==
  LET type_id == DataTypeId(type)
      size == AllocBitmapSize(num_records)
      bitmap == AllocateBuffer(size, pool, FALSE)
      offsets_len == AllocOffsetsLen(num_records)
      offsets == AllocateBuffer(offsets_len, pool, FALSE)
      data_len == IF is_primitive(type_id) \/ type_id = "DECIMAL"
                  THEN AllocDataLen(num_records, type)
                  ELSE 0
      data == AllocateBuffer(data_len, pool, TRUE)
      head == IF is_binary_like(type_id)
              THEN <<bitmap.buffer, offsets.buffer>>
              ELSE <<bitmap.buffer>>
      asked == IF is_binary_like(type_id) THEN <<size, offsets_len>> ELSE <<size>>
  IN  IF bitmap.status # StatusOK THEN AllocResult(bitmap.status, NullPtr, <<size>>)
      ELSE IF is_binary_like(type_id) /\ offsets.status # StatusOK
      THEN AllocResult(offsets.status, NullPtr, asked)
      ELSE IF ~AllocHasDataLen(type_id)
      THEN AllocResult(StatusInvalid("Unsupported output data type"), NullPtr, asked)
      ELSE IF data.status # StatusOK
      THEN AllocResult(data.status, NullPtr, Append(asked, data_len))
      ELSE AllocResult(StatusOK,
                       ArrayDataMake(type, num_records, Append(head, data.buffer)),
                       Append(asked, data_len))

\* --------------------------------------- Projector::ValidateArrayDataCapacity
\* What reading a vector element past its end may give: a null pointer, a
\* pointer to a resizable buffer, or a fault.
GarbageReads == {"null", "resizable", "fault"}

\* a call that ended in a fault and returned nothing
StatusFault == [code |-> "Fault", msg |-> ""]

\* int64_t min_bitmap_len = BytesForBits(num_records)
MinBitmapLen(num_records) == BytesForBits(num_records)

\* The mutant of the offsets minimum that counts one offset per record.
MinOffsetsLen_OnePerRecord(num_records) == BytesForBits(num_records * 32)

\* int64_t min_offsets_len = BytesForBits((num_records + 1) * 32)
MinOffsetsLen(num_records) == BytesForBits((num_records + 1) * 32)

\* int64_t min_data_len = BytesForBits(num_records * fw_type.bit_width())
MinDataLen(num_records, type) == BytesForBits(num_records * bit_width(type))

\* The result of ValidateArrayDataCapacity: the status and the indices of
\* array_data.buffers it read, in order.
CapacityResult(st, reads) == [status |-> st, reads |-> reads]

\* Projector::ValidateArrayDataCapacity(array_data, field, num_records);
\* garbage is what buffers[2] gives when the vector has two elements.
ValidateArrayDataCapacity(array_data, field, num_records, garbage) ==
  LET buffers == array_data.buffers
      type_id == DataTypeId(field.type)
  IN  IF Len(buffers) < 2
      THEN CapacityResult(StatusInvalid("ArrayData must have at least 2 buffers"), <<>>)
      ELSE IF buffers[1].capacity < MinBitmapLen(num_records)
      THEN CapacityResult(StatusInvalid("Bitmap buffer too small"), <<0>>)
      ELSE IF is_binary_like(type_id)
      THEN IF buffers[2].capacity < MinOffsetsLen(num_records)
           THEN CapacityResult(StatusInvalid("offsets buffer too small"), <<0, 1>>)
           ELSE IF Len(buffers) < 3
           THEN CASE garbage = "fault" -> CapacityResult(StatusFault, <<0, 1, 2>>)
                  [] garbage = "null" ->
                       CapacityResult(
                         StatusInvalid("data buffer for varlen output vectors must be resizable"),
                         <<0, 1, 2>>)
                  [] garbage = "resizable" -> CapacityResult(StatusOK, <<0, 1, 2>>)
           ELSE IF ~buffers[3].resizable
           THEN CapacityResult(
                  StatusInvalid("data buffer for varlen output vectors must be resizable"),
                  <<0, 1, 2>>)
           ELSE CapacityResult(StatusOK, <<0, 1, 2>>)
      ELSE IF is_primitive(type_id) \/ type_id = "DECIMAL"
      THEN IF buffers[2].capacity < MinDataLen(num_records, field.type)
           THEN CapacityResult(StatusInvalid("Data buffer too small"), <<0, 1>>)
           ELSE CapacityResult(StatusOK, <<0, 1>>)
      ELSE CapacityResult(StatusInvalid("Unsupported output data type"), <<0>>)

\* -------------------------------------------------- Projector::Evaluate
\* Expressions with a string, a list and a decimal result.
ExprUpper == [id |-> 6, ret |-> <<"u", "8">>, fn |-> <<"u", "p", "p", "e", "r">>,
              arg |-> <<"s">>, result |-> [name |-> <<"t">>, type |-> <<"u", "8">>]]

ExprSplit == [id |-> 7, ret |-> <<"l">>, fn |-> <<"s", "p", "l", "i", "t">>,
              arg |-> <<"s">>, result |-> [name |-> <<"v">>, type |-> <<"l">>]]

ExprCast == [id |-> 8, ret |-> <<"d">>, fn |-> <<"c", "a", "s", "t">>,
             arg |-> <<"a">>, result |-> [name |-> <<"c">>, type |-> <<"d">>]]

\* The expression lists of the projectors under evaluation.
EvalExpressionVectors ==
  {<<ExprAdd>>, <<ExprUpper>>, <<ExprAdd, ExprUpper>>, <<ExprLike, ExprCast>>,
   <<ExprAdd, ExprSplit>>}

\* A projector as Make builds it for SchemaA and one of these lists.
EvalProjectors ==
  {NewProjector(1, [id |-> 1, built |-> TRUE, exprs |-> exprs, mode |-> "MODE_NONE"],
                SchemaA, MakeOutputFields(exprs), ConfO) :
     exprs \in EvalExpressionVectors}

\* arrow::RecordBatch objects: their schema and num_rows().
EvalBatches ==
  [schema : {SchemaA2}, num_rows : {0, 1, 9}] \cup [schema : {SchemaB}, num_rows : {0, 9}]

\* SelectionVector objects, with GetNumSlots(); nullptr is no selection.
EvalSelectionVectors == {NullPtr, [id |-> 1, num_slots |-> 2]}

\* The column buffer sets callers supply: ample buffers, a bitmap or a second
\* buffer too small for any row, a data buffer that is not resizable, a
\* single buffer.
EvalArrayDatas ==
  {ArrayDataMake(<<>>, 0, buffers) :
     buffers \in {<<Buffer(256, FALSE), Buffer(256, FALSE)>>,
                  <<Buffer(0, FALSE), Buffer(256, FALSE)>>,
                  <<Buffer(256, FALSE), Buffer(0, FALSE)>>,
                  <<Buffer(256, FALSE), Buffer(256, FALSE), Buffer(0, TRUE)>>,
                  <<Buffer(256, FALSE), Buffer(256, FALSE), Buffer(256, FALSE)>>,
                  <<Buffer(256, FALSE)>>}}

\* The output_data_vecs callers pass: up to two buffer sets, null or not.
EvalOutputDataVecs ==
  {<<>>} \cup {<<a>> : a \in EvalArrayDatas \cup {NullPtr}}
         \cup {<<a, b>> : a \in EvalArrayDatas \cup {NullPtr},
                          b \in EvalArrayDatas \cup {NullPtr}}

\* One event of an Evaluate call: a check or a collaborator call, the column
\* it is about and the row count it is given.
EvalEv(op, idx, n) == [op |-> op, arg |-> idx, n |-> n]

\* The mutant of the argument check that accepts an empty batch.
ValidateEvaluateArgsCommon_AcceptsEmpty(schema, batch) ==
  IF ~SchemaEquals(batch.schema, schema, FALSE)
  THEN StatusInvalid("Schema in RecordBatch must match schema in Make()")
  ELSE StatusOK

\* The mutant of the argument check that compares the schema objects'
\* number of fields only.
ValidateEvaluateArgsCommon_CountsFields(schema, batch) ==
  IF Len(batch.schema.fields) = 0
  THEN StatusInvalid("Schema in RecordBatch must match schema in Make()")
  ELSE IF batch.num_rows = 0 THEN StatusInvalid("RecordBatch must be non-empty.")
  ELSE StatusOK

\* Projector::ValidateEvaluateArgsCommon(batch), schema being schema_
ValidateEvaluateArgsCommon(schema, batch) ==
  IF ~SchemaEquals(batch.schema, schema, FALSE)
  THEN StatusInvalid("Schema in RecordBatch must match schema in Make()")
  ELSE IF batch.num_rows = 0 THEN StatusInvalid("RecordBatch must be non-empty.")
  ELSE StatusOK

\* The mutant of the row count that ignores the selection vector.
EvalNumRows_IgnoresSelection(batch, selection_vector) == batch.num_rows

\* selection_vector == nullptr ? batch.num_rows()
\*                             : selection_vector->GetNumSlots()
EvalNumRows(batch, selection_vector) ==
  IF IsNull(selection_vector) THEN batch.num_rows ELSE selection_vector.num_slots

\* arrow::MakeArray(array_data)
MakeArray(array_data) ==
  [id |-> 1, type |-> array_data.type, length |-> array_data.length,
   data |-> array_data]

\* The mutant of the output step that appends to what the list held.
EvalFillOutput_Appends(output, output_data_vecs) ==
  output \o [i \in 1..Len(output_data_vecs) |-> MakeArray(output_data_vecs[i])]

\* output->clear(); then output->push_back(MakeArray(array_data)) for each
EvalFillOutput(output, output_data_vecs) ==
  [i \in 1..Len(output_data_vecs) |-> MakeArray(output_data_vecs[i])]

VARIABLES
  cache,            \* the static Cache of Make
  next_id,          \* the identity of the next Projector constructed
  calls,            \* Make calls started so far
  thread_id_hash,   \* per thread: std::hash of its thread id
  pc,               \* per thread: where its Make call stands
  args,             \* per thread: the arguments of its call
  cache_key,        \* per thread: Make's local cache_key
  cached_projector, \* per thread: Make's local cached_projector
  llvm_gen,         \* per thread: Make's local llvm_gen
  elapsed,          \* per thread: Make's local elapsed
  status,           \* per thread: the Status its call returned
  projector,        \* per thread: the caller's *projector
  trace,            \* per thread: the collaborator calls of its call, in order
  epoch,            \* per thread: the number of PutModule calls before its lookup
  puts,             \* every PutModule call so far, in order: [key, module]
  returned,         \* every successful return so far: [key, module, nputs]
  raced,            \* per thread: the threads whose call missed on an equal
                    \* key while this thread's call, having missed, was running
  key_a, key_b,     \* two keys under comparison
  from_a, from_b    \* the constructor arguments each was built from

make_vars == <<cache, next_id, calls, thread_id_hash, pc, args, cache_key,
               cached_projector, llvm_gen, elapsed, status, projector, trace,
               epoch, puts, returned, raced>>

key_vars == <<key_a, key_b, from_a, from_b>>

VARIABLES
  e_proj,           \* the Projector whose Evaluate is called
  e_pc,             \* where the Evaluate call stands
  e_path,           \* which Evaluate: "buffers" (caller's) or "alloc"
  e_batch,          \* the call's batch
  e_sel,            \* the call's selection_vector
  e_pool,           \* the call's pool
  e_vecs,           \* output_data_vecs: the caller's, or the local vector
  e_idx,            \* the loop's idx
  e_num_rows,       \* the local num_rows of the allocating Evaluate
  e_status,         \* the Status the call returned
  e_trace,          \* the checks and collaborator calls of the call, in order
  e_output,         \* the caller's arrow::ArrayVector
  e_before,         \* the caller's ArrayVector as it was when the call began
  c_field, c_n,     \* a field and a row count the capacity check is given
  c_a, c_b,         \* two column buffer sets checked against them
  c_res_a, c_res_b, \* what ValidateArrayDataCapacity returned for each
  c_alloc           \* an AllocArrayData call: its arguments and result

eval_vars == <<e_proj, e_pc, e_path, e_batch, e_sel, e_pool, e_vecs, e_idx,
               e_num_rows, e_status, e_trace, e_output, e_before>>

cap_vars == <<c_field, c_n, c_a, c_b, c_res_a, c_res_b, c_alloc>>

VARIABLES
  s_req,            \* the build request the worker threads make
  s_holders,        \* worker threads 0..s_holders-1 hold a projector
  s_hash,           \* std::hash of the id of the thread that called last
  s_status,         \* the Status the last call returned
  s_uniq            \* per worker thread: the shard indices of the keys it built

shard_vars == <<s_req, s_holders, s_hash, s_status, s_uniq>>

vars == <<make_vars, key_vars, eval_vars, cap_vars, shard_vars>>

MakeInit ==
  /\ cache = {}
  /\ next_id = 1
  /\ calls = 0
  /\ pc = [t \in Threads |-> "idle"]
  /\ args = [t \in Threads |-> NullPtr]
  /\ cache_key = [t \in Threads |-> NullPtr]
  /\ cached_projector = [t \in Threads |-> NullPtr]
  /\ llvm_gen = [t \in Threads |-> NullPtr]
  /\ elapsed = [t \in Threads |-> 0]
  /\ status = [t \in Threads |-> StatusPending]
  /\ projector = [t \in Threads |-> NullPtr]
  /\ trace = [t \in Threads |-> <<>>]
  /\ epoch = [t \in Threads |-> 0]
  /\ puts = <<>>
  /\ returned = {}
  /\ raced = [t \in Threads |-> {}]

\* No key is under comparison.
KeyIdle ==
  /\ key_a = NullPtr
  /\ key_b = NullPtr
  /\ from_a = NullPtr
  /\ from_b = NullPtr

\* No Evaluate call has been made.
EvalIdle ==
  /\ e_pc = "idle"
  /\ e_path = "none"
  /\ e_batch = NullPtr
  /\ e_sel = NullPtr
  /\ e_pool = NullPtr
  /\ e_vecs = <<>>
  /\ e_idx = 0
  /\ e_num_rows = 0
  /\ e_status = StatusPending
  /\ e_trace = <<>>
  /\ e_output = <<>>
  /\ e_before = <<>>

\* No buffer set has been checked or allocated.
CapIdle ==
  /\ c_field = NullPtr
  /\ c_n = 0
  /\ c_a = NullPtr
  /\ c_b = NullPtr
  /\ c_res_a = NullPtr
  /\ c_res_b = NullPtr
  /\ c_alloc = NullPtr

\* No worker thread has called Make.
ShardIdle ==
  /\ s_req = NullPtr
  /\ s_holders = 0
  /\ s_hash = 0
  /\ s_status = StatusPending
  /\ s_uniq = <<>>

Init ==
  /\ MakeInit
  /\ thread_id_hash \in {h \in [Threads -> ThreadIdHashes] :
                           /\ h[1] = 5
                           /\ \A t, u \in Threads : h[t] = h[u] => t = u}
  /\ KeyIdle
  /\ e_proj = NullPtr
  /\ EvalIdle
  /\ CapIdle
  /\ ShardIdle

\* A caller enters Make(schema, exprs, selection_vector_mode, configuration,
\* projector): the argument checks.
MakeCall(t, req) ==
  /\ pc[t] \in {"idle", "done"}
  /\ calls < MaxCalls
  /\ calls' = calls + 1
  /\ args' = [args EXCEPT ![t] = req]
  /\ cache_key' = [cache_key EXCEPT ![t] = NullPtr]
  /\ cached_projector' = [cached_projector EXCEPT ![t] = NullPtr]
  /\ llvm_gen' = [llvm_gen EXCEPT ![t] = NullPtr]
  /\ elapsed' = [elapsed EXCEPT ![t] = 0]
  /\ projector' = [projector EXCEPT ![t] = NullPtr]
  /\ trace' = [trace EXCEPT ![t] = <<>>]
  /\ epoch' = [epoch EXCEPT ![t] = 0]
  /\ raced' = [u \in Threads |-> IF u = t THEN {} ELSE raced[u] \ {t}]
  /\ LET st == MakeArgsCheck(req.schema, req.exprs, req.configuration)
     IN  IF st.code # "OK"
         THEN /\ status' = [status EXCEPT ![t] = st]
              /\ pc' = [pc EXCEPT ![t] = "done"]
         ELSE /\ status' = [status EXCEPT ![t] = StatusPending]
              /\ pc' = [pc EXCEPT ![t] = "lookup"]
  /\ UNCHANGED <<cache, next_id, thread_id_hash, puts, returned, key_vars, eval_vars, cap_vars, shard_vars>>

\* The places of a call between its cache miss and its return.
InFlight == {"backend", "validate", "build", "insert"}

\* The other threads whose call has missed on a key equal to key and has not
\* returned yet.
Racing(t, key) ==
  {u \in Threads \ {t} : pc[u] \in InFlight /\ KeyEquals(cache_key[u], key)}

\* The key is built and the cache queried; a hit returns the cached projector.
MakeLookup(t) ==
  /\ pc[t] = "lookup"
  /\ LET key == ProjectorCacheKey(args[t].schema, args[t].configuration, args[t].exprs,
                                  args[t].mode, thread_id_hash[t])
         found == MakeCachedProjector(cache, key)
     IN  /\ cache_key' = [cache_key EXCEPT ![t] = key]
         /\ cached_projector' = [cached_projector EXCEPT ![t] = found]
         /\ trace' = [trace EXCEPT ![t] = Append(@, Ev("GetModule", 0))]
         /\ epoch' = [epoch EXCEPT ![t] = Len(puts)]
         /\ IF ~IsNull(found)
            THEN /\ projector' = [projector EXCEPT ![t] = found]
                 /\ status' = [status EXCEPT ![t] = StatusOK]
                 /\ pc' = [pc EXCEPT ![t] = "done"]
                 /\ returned' = returned \cup
                                  {[key |-> key, module |-> found, nputs |-> Len(puts)]}
                 /\ UNCHANGED raced
            ELSE /\ pc' = [pc EXCEPT ![t] = "backend"]
                 /\ raced' = [u \in Threads |->
                       IF u = t THEN Racing(t, key)
                       ELSE IF u \in Racing(t, key) THEN raced[u] \cup {t}
                       ELSE raced[u]]
                 /\ UNCHANGED <<projector, status, returned>>
  /\ UNCHANGED <<cache, next_id, calls, thread_id_hash, args, llvm_gen, elapsed, puts,
                 key_vars, eval_vars, cap_vars, shard_vars>>

\* LLVMGenerator::Make(configuration, &llvm_gen): it succeeds or fails.
MakeBackend(t) ==
  /\ pc[t] = "backend"
  /\ trace' = [trace EXCEPT ![t] = Append(@, Ev("LLVMGenerator::Make", 0))]
  /\ \E ok \in BOOLEAN :
       IF ok
       THEN /\ llvm_gen' = [llvm_gen EXCEPT ![t] =
                  [id |-> 1, built |-> FALSE, exprs |-> <<>>, mode |-> "MODE_NONE"]]
            /\ pc' = [pc EXCEPT ![t] = "validate"]
            /\ UNCHANGED status
       ELSE /\ status' = [status EXCEPT ![t] =
                  [code |-> "CodeGenError", msg |-> "LLVMGenerator::Make failed"]]
            /\ pc' = [pc EXCEPT ![t] = "done"]
            /\ UNCHANGED llvm_gen
  /\ UNCHANGED <<cache, next_id, calls, thread_id_hash, args, cache_key, cached_projector,
                 elapsed, projector, epoch, puts, returned, raced, key_vars, eval_vars, cap_vars, shard_vars>>

\* The validation of every expression, in order, up to the first failure.
MakeValidate(t) ==
  /\ pc[t] = "validate"
  /\ LET r == MakeValidateLoop(args[t].schema, args[t].exprs, 1, <<>>)
     IN  /\ trace' = [trace EXCEPT ![t] = @ \o r.events]
         /\ IF r.status.code # "OK"
            THEN /\ status' = [status EXCEPT ![t] = r.status]
                 /\ pc' = [pc EXCEPT ![t] = "done"]
            ELSE /\ pc' = [pc EXCEPT ![t] = "build"]
                 /\ UNCHANGED status
  /\ UNCHANGED <<cache, next_id, calls, thread_id_hash, args, cache_key, cached_projector,
                 llvm_gen, elapsed, projector, epoch, puts, returned, raced, key_vars, eval_vars, cap_vars, shard_vars>>

\* llvm_gen->Build(exprs, selection_vector_mode), timed: it succeeds or fails.
MakeBuild(t) ==
  /\ pc[t] = "build"
  /\ trace' = [trace EXCEPT ![t] = Append(@, Ev("Build", 0))]
  /\ \E ok \in BOOLEAN, ms \in ElapsedMillis :
       /\ pc' = [pc EXCEPT ![t] = MakeAfterBuild(ok)]
       /\ IF ok
          THEN /\ llvm_gen' = [llvm_gen EXCEPT ![t] =
                     [id |-> 1, built |-> TRUE, exprs |-> args[t].exprs,
                      mode |-> args[t].mode]]
               /\ elapsed' = [elapsed EXCEPT ![t] = ms]
               /\ UNCHANGED status
          ELSE /\ status' = [status EXCEPT ![t] =
                     [code |-> "CodeGenError", msg |-> "Build failed"]]
               /\ UNCHANGED <<llvm_gen, elapsed>>
  /\ UNCHANGED <<cache, next_id, calls, thread_id_hash, args, cache_key, cached_projector,
                 projector, epoch, puts, returned, raced, key_vars, eval_vars, cap_vars, shard_vars>>

\* The projector is constructed, registered in the cache and returned.
MakeInsert(t) ==
  /\ pc[t] = "insert"
  /\ LET p == NewProjector(next_id, llvm_gen[t], args[t].schema,
                           MakeOutputFields(args[t].exprs), args[t].configuration)
     IN  /\ projector' = [projector EXCEPT ![t] = p]
         /\ cache' = MakeRegister(cache, cache_key[t], p, elapsed[t])
         /\ puts' = Append(puts, [key |-> cache_key[t], module |-> p])
         /\ returned' = returned \cup
                          {[key |-> cache_key[t], module |-> p, nputs |-> Len(puts) + 1]}
  /\ next_id' = next_id + 1
  /\ llvm_gen' = [llvm_gen EXCEPT ![t] = NullPtr]
  /\ elapsed' = [elapsed EXCEPT ![t] = 0]
  /\ trace' = [trace EXCEPT ![t] = Append(@, Ev("PutModule", 0))]
  /\ status' = [status EXCEPT ![t] = StatusOK]
  /\ pc' = [pc EXCEPT ![t] = "done"]
  /\ UNCHANGED <<calls, thread_id_hash, args, cache_key, cached_projector, epoch, raced,
                 key_vars, eval_vars, cap_vars, shard_vars>>

Next ==
  \E t \in Threads :
    \/ \E req \in Requests : MakeCall(t, req)
    \/ MakeLookup(t)
    \/ MakeBackend(t)
    \/ MakeValidate(t)
    \/ MakeBuild(t)
    \/ MakeInsert(t)

Spec == Init /\ [][Next]_vars

\* ------------------------------------------- keys on their own (SpecKey)
\* The constructor arguments keys are built from.
KeySchemas == {SchemaA, SchemaA2, SchemaB}

KeyConfigurations == {ConfO, ConfO2, ConfN}

KeyExpressionVectors ==
  {<<ExprAdd>>, <<ExprAdd2>>, <<ExprLike>>, <<ExprILike>>,
   <<ExprAdd, ExprLike>>, <<ExprAdd2, ExprLike>>, <<ExprLike, ExprAdd>>}

KeyInputs ==
  [schema : KeySchemas, configuration : KeyConfigurations,
   exprs : KeyExpressionVectors, mode : Modes, thread_id_hash : ThreadIdHashes]

KeyOf(in) ==
  ProjectorCacheKey(in.schema, in.configuration, in.exprs, in.mode, in.thread_id_hash)

\* Every key the constructor builds from these arguments.
KeyUniverse == {KeyOf(in) : in \in KeyInputs}

KeyInit ==
  /\ MakeInit
  /\ thread_id_hash = [t \in Threads |-> 5]
  /\ KeyIdle
  /\ e_proj = NullPtr
  /\ EvalIdle
  /\ CapIdle
  /\ ShardIdle

\* A key is constructed on some thread and kept for comparison.
KeyConstructA(in) ==
  /\ key_a = NullPtr
  /\ key_a' = KeyOf(in)
  /\ from_a' = in
  /\ UNCHANGED <<key_b, from_b, make_vars, eval_vars, cap_vars, shard_vars>>

KeyConstructB(in) ==
  /\ key_b = NullPtr
  /\ key_b' = KeyOf(in)
  /\ from_b' = in
  /\ UNCHANGED <<key_a, from_a, make_vars, eval_vars, cap_vars, shard_vars>>

KeyNext ==
  \E in \in KeyInputs :
    \/ KeyConstructA(in)
    \/ KeyConstructB(in)

SpecKey == KeyInit /\ [][KeyNext]_vars

\* ------------------------------------------------------ claims on the key
KeysBuilt == key_a # NullPtr /\ key_b # NullPtr

\* The five components of two keys are equal.
SameComponents(a, b) ==
  /\ a.schema_.fields = b.schema_.fields
  /\ a.configuration_.optimize = b.configuration_.optimize
  /\ a.expressions_as_strings_ = b.expressions_as_strings_
  /\ a.mode_ = b.mode_
  /\ a.uniqifier_ = b.uniqifier_

\* C8: two keys compare equal if and only if their schemas are structurally
\* equal, their configurations equal, their ordered expression strings
\* equal, their modes equal and their shard indices equal; keys built from
\* different expression objects with the same strings (and otherwise equal
\* arguments) are equal exactly when their shard indices are; the relation is
\* reflexive, symmetric and transitive.
C8_KeyEqualityIsComponentwise ==
  KeysBuilt =>
    /\ KeyEquals(key_a, key_b) <=> SameComponents(key_a, key_b)
    /\ ( /\ from_a.schema.fields = from_b.schema.fields
         /\ from_a.configuration.optimize = from_b.configuration.optimize
         /\ from_a.mode = from_b.mode
         /\ [i \in 1..Len(from_a.exprs) |-> ExprToString(from_a.exprs[i])]
              = [i \in 1..Len(from_b.exprs) |-> ExprToString(from_b.exprs[i])] )
       => (KeyEquals(key_a, key_b) <=> key_a.uniqifier_ = key_b.uniqifier_)
    /\ KeyEquals(key_a, key_a)
    /\ KeyEquals(key_a, key_b) <=> KeyEquals(key_b, key_a)
    /\ \A c \in KeyUniverse :
         (KeyEquals(key_a, key_b) /\ KeyEquals(key_b, c)) => KeyEquals(key_a, c)

\* Two equal keys built from different schema, configuration and expression
\* objects, on two threads whose ids hash differently into one shard.
C8_Witness ==
  /\ KeysBuilt
  /\ KeyEquals(key_a, key_b)
  /\ from_a.schema.id # from_b.schema.id
  /\ from_a.configuration.id # from_b.configuration.id
  /\ from_a.exprs = <<ExprAdd, ExprLike>>
  /\ from_b.exprs = <<ExprAdd2, ExprLike>>
  /\ from_a.thread_id_hash # from_b.thread_id_hash

\* C9: equal keys have equal hashes.
C9_HashConsistentWithEquality ==
  KeysBuilt => (KeyEquals(key_a, key_b) => KeyHash(key_a) = KeyHash(key_b))

\* Two equal keys built from different objects, with one hash.
C9_Witness ==
  /\ KeysBuilt
  /\ KeyEquals(key_a, key_b)
  /\ from_a.schema.id # from_b.schema.id
  /\ from_a.configuration.id # from_b.configuration.id
  /\ from_a.exprs # from_b.exprs
  /\ KeyHash(key_a) = KeyHash(key_b)

HasLike(key) ==
  \E i \in 1..Len(key.expressions_as_strings_) :
    StringContains(key.expressions_as_strings_[i], kLikeSignature)

\* C10: the shard index of every key lies in 0..15, and it is non-zero only
\* if some expression string holds " like("; without one it is 0 on every
\* thread.
C10_ShardIndexBounded ==
  \A key \in {key_a, key_b} \ {NullPtr} :
    /\ key.uniqifier_ \in 0..(kNumShards - 1)
    /\ key.uniqifier_ # 0 => HasLike(key)
    /\ ~HasLike(key) => key.uniqifier_ = 0

\* A like key sharded by a thread whose id hash exceeds 15, beside a key of
\* "ilike" built on the same thread, which stays in shard 0.
C10_Witness ==
  /\ KeysBuilt
  /\ from_a.exprs = <<ExprAdd, ExprLike>>
  /\ from_a.thread_id_hash = 21
  /\ key_a.uniqifier_ = 5
  /\ from_b.exprs = <<ExprILike>>
  /\ from_b.thread_id_hash = 21
  /\ key_b.uniqifier_ = 0

\* ----------------------------------------------------- claims on Make
\* How often a call's trace holds a collaborator call.
Count(events, op) == Cardinality({i \in 1..Len(events) : events[i].op = op})

BadArgs(a) == IsNull(a.schema) \/ a.exprs = <<>> \/ IsNull(a.configuration)

Failed(st) == st.code \notin {"OK", "Pending"}

\* C1: a Make call with a null schema, an empty expression list or a null
\* configuration returns an invalid-argument failure and does nothing else:
\* no lookup, no insertion, no backend, no validation, no compile, and the
\* cache is as it was.
C1_InvalidArgumentsNoWork ==
  /\ [](\A t \in Threads :
          (pc[t] # "idle" /\ BadArgs(args[t])) =>
            /\ pc[t] = "done"
            /\ status[t].code = "Invalid"
            /\ trace[t] = <<>>
            /\ IsNull(projector[t])
            /\ IsNull(llvm_gen[t]))
  /\ [][calls' # calls => (cache' = cache /\ puts' = puts /\ next_id' = next_id)]_vars

\* An empty expression list was rejected while the cache held an entry.
C1_Witness ==
  \E t \in Threads :
    /\ pc[t] = "done"
    /\ args[t].exprs = <<>>
    /\ status[t] = StatusInvalid("Expressions cannot be empty")
    /\ cache # {}

\* C2: when the lookup finds an entry under a key equal to the request's,
\* Make returns that entry's instance and constructs no backend, validates
\* and compiles nothing and inserts nothing: the cache is unchanged.
C2_HitReturnsCachedInstance ==
  [][\A t \in Threads :
       ( /\ pc[t] = "lookup"
         /\ pc'[t] # "lookup"
         /\ \E e \in cache : KeyEquals(e.key, cache_key'[t]) ) =>
         /\ \E e \in cache : /\ KeyEquals(e.key, cache_key'[t])
                             /\ projector'[t] = e.value.module
         /\ status'[t] = StatusOK
         /\ pc'[t] = "done"
         /\ trace'[t] = <<Ev("GetModule", 0)>>
         /\ IsNull(llvm_gen'[t])
         /\ cache' = cache
         /\ puts' = puts
         /\ next_id' = next_id]_vars

\* A call made with other schema, configuration and expression objects was
\* served the instance built for an equal key.
C2_Witness ==
  \E t \in Threads :
    /\ pc[t] = "done"
    /\ ~IsNull(cached_projector[t])
    /\ projector[t] = cached_projector[t]
    /\ args[t].schema.id # projector[t].schema_.id

\* C3: after a Make call has returned an instance for a key, a later call
\* with equal schema, configuration, expression strings, mode and shard index
\* returns the same instance, as long as no build of that key was registered
\* in between.
C3_BuildingTwiceReturnsSameInstance ==
  [][\A t \in Threads :
       (pc[t] = "lookup" /\ pc'[t] # "lookup") =>
         \A r \in returned :
           ( /\ SameComponents(r.key, cache_key'[t])
             /\ \A i \in (r.nputs + 1)..Len(puts) : ~SameComponents(puts[i].key, r.key) ) =>
             /\ pc'[t] = "done"
             /\ status'[t] = StatusOK
             /\ projector'[t] = r.module]_vars

\* The same contention-prone request was built and then served again, on one
\* thread or on two threads of one shard.
C3_Witness ==
  \E t \in Threads :
    /\ pc[t] = "done"
    /\ args[t].exprs = <<ExprLike>>
    /\ ~IsNull(cached_projector[t])
    /\ cache_key[t].uniqifier_ = 5
    /\ status[t] = StatusOK
    /\ \E r \in returned : r.module = projector[t] /\ r.nputs < epoch[t] + 1

\* C4: a Make call that fails after the cache miss inserts nothing: the cache
\* only ever holds evaluators whose backend was constructed, whose
\* expressions all validate and whose compile succeeded.
C4_FailedBuildNeverCached ==
  /\ [](\A e \in cache :
          LET m == e.value.module
          IN  /\ ~IsNull(m.llvm_generator_)
              /\ m.llvm_generator_.built
              /\ m.llvm_generator_.exprs # <<>>
              /\ \A i \in 1..Len(m.llvm_generator_.exprs) :
                   ExprValidatorValidate(m.schema_, m.llvm_generator_.exprs[i]).code = "OK")
  /\ [](\A t \in Threads :
          (pc[t] = "done" /\ Failed(status[t])) =>
            (Count(trace[t], "PutModule") = 0 /\ IsNull(projector[t])))
  /\ [][\A t \in Threads :
          (status'[t] # status[t] /\ Failed(status'[t])) =>
            (cache' = cache /\ puts' = puts)]_vars

\* One call failed in validation and another in the compile step.
C4_Witness ==
  \E t, u \in Threads :
    /\ pc[t] = "done"
    /\ status[t].code = "ExpressionValidationError"
    /\ trace[t] = <<Ev("GetModule", 0), Ev("LLVMGenerator::Make", 0),
                    Ev("Validate", 1), Ev("Validate", 2)>>
    /\ pc[u] = "done"
    /\ status[u].msg = "Build failed"

\* C5: a Make call looks the cache up at most once and inserts at most once,
\* inserts only when its lookup missed, and compiles at most once.
C5_OneLookupOneInsertOneCompile ==
  \A t \in Threads :
    /\ Count(trace[t], "GetModule") <= 1
    /\ Count(trace[t], "PutModule") <= 1
    /\ Count(trace[t], "Build") <= 1
    /\ Count(trace[t], "PutModule") = 1 =>
         (Count(trace[t], "GetModule") = 1 /\ IsNull(cached_projector[t]))

\* One call missed, compiled and inserted; another failed to compile.
C5_Witness ==
  \E t, u \in Threads :
    /\ pc[t] = "done"
    /\ trace[t] = <<Ev("GetModule", 0), Ev("LLVMGenerator::Make", 0),
                    Ev("Validate", 1), Ev("Build", 0), Ev("PutModule", 0)>>
    /\ pc[u] = "done"
    /\ status[u].msg = "Build failed"
    /\ Count(trace[u], "Build") = 1

\* The step is thread t's registration of its projector.
Inserts(t) == pc[t] = "insert" /\ pc'[t] = "done"

\* C6 as stated: once the cache maps a key to an instance no Make call
\* replaces it, and an insertion never targets a key already present.
C6_NeverTargetsPresentKey ==
  [][ /\ \A t \in Threads : Inserts(t) => CacheFind(cache, cache_key[t]) = {}
      /\ \A e \in cache : \E f \in cache' :
           KeyEquals(e.key, f.key) /\ f.value.module = e.value.module ]_vars

\* C6, amended: a Make call never replaces an entry that was present under
\* its key when it looked the key up; an entry changes only by an
\* insertion under its key, and an insertion meets an entry only if that
\* entry was registered after the inserting call's own lookup.
C6_ReplacesOnlyEntriesNewerThanLookup ==
  [][ /\ \A t \in Threads :
           Inserts(t) =>
             \A e \in CacheFind(cache, cache_key[t]) :
               \E i \in (epoch[t] + 1)..Len(puts) : puts[i].module = e.value.module
      /\ \A e \in cache :
           \/ e \in cache'
           \/ \E t \in Threads : Inserts(t) /\ KeyEquals(e.key, cache_key[t]) ]_vars

\* Two calls registered instances under equal keys, one after the other.
C6_Witness ==
  /\ Len(puts) >= 2
  /\ KeyEquals(puts[1].key, puts[2].key)
  /\ puts[1].module # puts[2].module

BothDone(t, u) == pc[t] = "done" /\ pc[u] = "done"

\* The entry of the cache under key, if it is the only one.
TheEntry(key) == CHOOSE e \in CacheFind(cache, key) : TRUE

\* The last registration under a key equal to key.
LastPut(key) ==
  LET at == {i \in 1..Len(puts) : KeyEquals(puts[i].key, key)}
  IN  puts[CHOOSE i \in at : \A j \in at : j <= i]

\* What two racing calls leave behind: two distinct, fully built evaluators
\* bound to equal schemas, configurations and output fields, and one cache
\* entry under the key, holding the instance registered last.
RaceOutcome(t, u) ==
  /\ status[t] = StatusOK
  /\ status[u] = StatusOK
  /\ Count(trace[t], "Build") = 1
  /\ Count(trace[u], "Build") = 1
  /\ projector[t].id # projector[u].id
  /\ projector[t].llvm_generator_.built
  /\ projector[u].llvm_generator_.built
  /\ SchemaEquals(projector[t].schema_, projector[u].schema_, TRUE)
  /\ ConfigurationEquals(projector[t].configuration_, projector[u].configuration_)
  /\ projector[t].output_fields_ = projector[u].output_fields_
  /\ projector[t].output_fields_ = MakeOutputFields(args[t].exprs)
  /\ Cardinality(CacheFind(cache, cache_key[t])) = 1
  /\ TheEntry(cache_key[t]).value.module = LastPut(cache_key[t]).module
  /\ \E i \in 1..Len(puts) : puts[i].module = projector[t]
  /\ \E i \in 1..Len(puts) : puts[i].module = projector[u]

\* C7 as stated: whenever two concurrent Make calls with equal keys both miss,
\* both compile and return success, with the outcome above.
C7_RacingCallsBothSucceed ==
  \A t \in Threads : \A u \in raced[t] : BothDone(t, u) => RaceOutcome(t, u)

\* C7, amended: the same, for two racing calls neither of which fails in
\* backend construction, validation or compile.
C7_RacingBuildsLastWriteWins ==
  \A t \in Threads : \A u \in raced[t] :
    (BothDone(t, u) /\ ~Failed(status[t]) /\ ~Failed(status[u])) => RaceOutcome(t, u)

\* Two calls raced on equal keys built from different objects and both
\* returned; the cache holds the second instance registered.
C7_Witness ==
  \E t \in Threads : \E u \in raced[t] :
    /\ BothDone(t, u)
    /\ status[t] = StatusOK
    /\ status[u] = StatusOK
    /\ args[t].schema.id # args[u].schema.id
    /\ projector[t].id < projector[u].id
    /\ TheEntry(cache_key[t]).value.module = projector[u]

\* ------------------------------------------- the order of a miss (C18)
\* s is an initial part of t.
IsPrefix(s, t) == Len(s) <= Len(t) /\ \A i \in 1..Len(s) : s[i] = t[i]

\* The collaborator calls of a complete miss on exprs, in the order claimed.
MissTrace(exprs) ==
  <<Ev("GetModule", 0), Ev("LLVMGenerator::Make", 0)>>
  \o [i \in 1..Len(exprs) |-> Ev("Validate", i)]
  \o <<Ev("Build", 0), Ev("PutModule", 0)>>

\* C18: on a cache miss Make runs backend construction, then the validation
\* of each expression in list order up to the first failure, then one compile
\* of the whole list, then the construction of the evaluator and its
\* insertion under the key of the lookup; it compiles only if every
\* expression validated and inserts only if the compile succeeded.
C18_MissStepsInOrder ==
  /\ [](\A t \in Threads :
          (pc[t] # "idle" /\ ~BadArgs(args[t])) =>
            /\ IsPrefix(trace[t], MissTrace(args[t].exprs))
            /\ Count(trace[t], "Build") > 0 =>
                 \A i \in 1..Len(args[t].exprs) :
                   ExprValidatorValidate(args[t].schema, args[t].exprs[i]) = StatusOK
            /\ Count(trace[t], "PutModule") > 0 =>
                 /\ status[t] = StatusOK
                 /\ projector[t].llvm_generator_.built
                 /\ projector[t].llvm_generator_.exprs = args[t].exprs)
  /\ [][\A t \in Threads :
          Inserts(t) =>
            LET key == ProjectorCacheKey(args[t].schema, args[t].configuration,
                                         args[t].exprs, args[t].mode, thread_id_hash[t])
            IN  /\ projector'[t].id = next_id
                /\ puts' = Append(puts, [key |-> key, module |-> projector'[t]])
                /\ \E e \in cache' : e.key = key /\ e.value.module = projector'[t]]_vars

\* A miss on a list of three expressions stopped at the second, which does
\* not validate; another miss ran all its steps.
C18_Witness ==
  \E t, u \in Threads :
    /\ pc[t] = "done"
    /\ trace[t] = <<Ev("GetModule", 0), Ev("LLVMGenerator::Make", 0),
                    Ev("Validate", 1), Ev("Validate", 2)>>
    /\ pc[u] = "done"
    /\ trace[u] = MissTrace(args[u].exprs)

\* ------------------------------------------ Evaluate on its own (SpecEval)
EvalInit ==
  /\ MakeInit
  /\ thread_id_hash = [t \in Threads |-> 5]
  /\ KeyIdle
  /\ e_proj \in EvalProjectors
  /\ EvalIdle
  /\ CapIdle
  /\ ShardIdle

\* Evaluate(batch, selection_vector, output_data_vecs) is entered: the
\* argument checks and the count of the buffer sets.
EvaluateCall(batch, selection_vector, output_data_vecs) ==
  /\ e_pc = "idle"
  /\ e_path' = "buffers"
  /\ e_batch' = batch
  /\ e_sel' = selection_vector
  /\ e_pool' = NullPtr
  /\ e_vecs' = output_data_vecs
  /\ e_idx' = 0
  /\ e_num_rows' = 0
  /\ e_before' = e_output
  /\ LET st == ValidateEvaluateArgsCommon(e_proj.schema_, batch)
     IN  IF st # StatusOK
         THEN /\ e_status' = st
              /\ e_trace' = <<EvalEv("ValidateEvaluateArgsCommon", 0, 0)>>
              /\ e_pc' = "done"
         ELSE IF Len(output_data_vecs) # Len(e_proj.output_fields_)
         THEN /\ e_status' = StatusInvalid("number of buffers for output_data_vecs")
              /\ e_trace' = <<EvalEv("ValidateEvaluateArgsCommon", 0, 0),
                              EvalEv("size", 0, 0)>>
              /\ e_pc' = "done"
         ELSE /\ e_status' = StatusPending
              /\ e_trace' = <<EvalEv("ValidateEvaluateArgsCommon", 0, 0),
                              EvalEv("size", 0, 0)>>
              /\ e_pc' = "validate"
  /\ UNCHANGED <<e_proj, e_output, make_vars, key_vars, cap_vars, shard_vars>>

\* One round of the loop over output_data_vecs: the null check and the
\* capacity check of the buffer set at idx.
EvaluateValidateColumn ==
  /\ e_pc = "validate"
  /\ LET array_data == e_vecs[e_idx + 1]
         num_rows == EvalNumRows(e_batch, e_sel)
     IN  IF IsNull(array_data)
         THEN /\ e_status' = StatusInvalid("array for output field is null.")
              /\ e_trace' = Append(e_trace, EvalEv("null", e_idx, 0))
              /\ e_pc' = "done"
              /\ UNCHANGED e_idx
         ELSE \E garbage \in GarbageReads :
                LET r == ValidateArrayDataCapacity(array_data,
                                                   e_proj.output_fields_[e_idx + 1],
                                                   num_rows, garbage)
                IN  /\ e_trace' = e_trace \o
                                    <<EvalEv("null", e_idx, 0),
                                      EvalEv("ValidateArrayDataCapacity", e_idx, num_rows)>>
                    /\ IF r.status = StatusFault
                       THEN /\ e_pc' = "fault"
                            /\ UNCHANGED <<e_status, e_idx>>
                       ELSE IF r.status # StatusOK
                       THEN /\ e_status' = r.status
                            /\ e_pc' = "done"
                            /\ UNCHANGED e_idx
                       ELSE /\ e_idx' = e_idx + 1
                            /\ e_pc' = IF e_idx + 1 = Len(e_vecs) THEN "execute"
                                       ELSE "validate"
                            /\ UNCHANGED e_status
  /\ UNCHANGED <<e_proj, e_path, e_batch, e_sel, e_pool, e_vecs, e_num_rows, e_output,
                 e_before, make_vars, key_vars, cap_vars, shard_vars>>

\* Evaluate(batch, selection_vector, pool, output) is entered: the argument
\* checks and the row count.
EvaluateAllocCall(batch, selection_vector, pool, output_is_null) ==
  /\ e_pc = "idle"
  /\ e_path' = "alloc"
  /\ e_batch' = batch
  /\ e_sel' = selection_vector
  /\ e_pool' = pool
  /\ e_vecs' = <<>>
  /\ e_idx' = 0
  /\ e_before' = e_output
  /\ e_trace' = <<EvalEv("ValidateEvaluateArgsCommon", 0, 0)>>
  /\ LET st == ValidateEvaluateArgsCommon(e_proj.schema_, batch)
     IN  IF st # StatusOK
         THEN /\ e_status' = st
              /\ e_pc' = "done"
              /\ e_num_rows' = 0
         ELSE IF output_is_null
         THEN /\ e_status' = StatusInvalid("Output must be non-null.")
              /\ e_pc' = "done"
              /\ e_num_rows' = 0
         ELSE IF IsNull(pool)
         THEN /\ e_status' = StatusInvalid("Memory pool must be non-null.")
              /\ e_pc' = "done"
              /\ e_num_rows' = 0
         ELSE /\ e_status' = StatusPending
              /\ e_pc' = "alloc"
              /\ e_num_rows' = EvalNumRows(batch, selection_vector)
  /\ UNCHANGED <<e_proj, e_output, make_vars, key_vars, cap_vars, shard_vars>>

\* One round of the loop over output_fields_: the buffer set of the next
\* field is allocated and pushed on output_data_vecs.
EvaluateAllocColumn ==
  /\ e_pc = "alloc"
  /\ LET field == e_proj.output_fields_[Len(e_vecs) + 1]
         r == AllocArrayData(field.type, e_num_rows, e_pool)
     IN  /\ e_trace' = Append(e_trace, EvalEv("AllocArrayData", Len(e_vecs), e_num_rows))
         /\ IF r.status # StatusOK
            THEN /\ e_status' = r.status
                 /\ e_pc' = "done"
                 /\ UNCHANGED e_vecs
            ELSE /\ e_vecs' = Append(e_vecs, r.array_data)
                 /\ e_pc' = IF Len(e_vecs) + 1 = Len(e_proj.output_fields_)
                            THEN "execute" ELSE "alloc"
                 /\ UNCHANGED e_status
  /\ UNCHANGED <<e_proj, e_path, e_batch, e_sel, e_pool, e_idx, e_num_rows, e_output,
                 e_before, make_vars, key_vars, cap_vars, shard_vars>>

\* A variant that clears the caller's list before Execute has reported.
EvalOutputAfterExecute_ClearsFirst(ok, output, output_data_vecs) ==
  IF ok THEN EvalFillOutput(output, output_data_vecs) ELSE <<>>

\* The caller's list after the allocating Evaluate has run Execute: the
\* failure returns before output->clear(), success clears and refills.
EvalOutputAfterExecute(ok, output, output_data_vecs) ==
  IF ok THEN EvalFillOutput(output, output_data_vecs) ELSE output

\* llvm_generator_->Execute(batch, selection_vector, output_data_vecs): it
\* succeeds or fails; the allocating Evaluate then fills the caller's list.
EvaluateExecute ==
  /\ e_pc = "execute"
  /\ e_trace' = Append(e_trace, EvalEv("Execute", 0, 0))
  /\ e_pc' = "done"
  /\ \E ok \in BOOLEAN :
       /\ e_status' = IF ok THEN StatusOK
                       ELSE [code |-> "ExecutionError", msg |-> "Execute failed"]
       /\ e_output' = IF e_path = "alloc"
                       THEN EvalOutputAfterExecute(ok, e_output, e_vecs)
                       ELSE e_output
  /\ UNCHANGED <<e_proj, e_path, e_batch, e_sel, e_pool, e_vecs, e_idx, e_num_rows,
                 e_before, make_vars, key_vars, cap_vars, shard_vars>>

\* The call has returned its Status: its arguments and locals are gone, the
\* caller keeps its list.
EvaluateReturn ==
  /\ e_pc = "done"
  /\ e_pc' = "idle"
  /\ e_path' = "none"
  /\ e_batch' = NullPtr
  /\ e_sel' = NullPtr
  /\ e_pool' = NullPtr
  /\ e_vecs' = <<>>
  /\ e_idx' = 0
  /\ e_num_rows' = 0
  /\ e_status' = StatusPending
  /\ e_trace' = <<>>
  /\ e_before' = e_output
  /\ UNCHANGED <<e_proj, e_output, make_vars, key_vars, cap_vars, shard_vars>>

EvalNext ==
  \/ \E batch \in EvalBatches, selection_vector \in EvalSelectionVectors,
        output_data_vecs \in EvalOutputDataVecs :
       EvaluateCall(batch, selection_vector, output_data_vecs)
  \/ EvaluateValidateColumn
  \/ \E batch \in EvalBatches, selection_vector \in EvalSelectionVectors,
        pool \in {NullPtr, PoolBig, PoolSmall}, output_is_null \in BOOLEAN :
       EvaluateAllocCall(batch, selection_vector, pool, output_is_null)
  \/ EvaluateAllocColumn
  \/ EvaluateExecute
  \/ EvaluateReturn

SpecEval == EvalInit /\ [][EvalNext]_vars

\* ------------------------------------------------- claims on Evaluate
\* The call executed the compiled code.
Executed == \E i \in 1..Len(e_trace) : e_trace[i].op = "Execute"

\* The call returned an invalid-argument failure.
ReturnedInvalid == e_pc = "done" /\ e_status.code = "Invalid"

\* The effective row count of the call: the batch's rows, or the slots of
\* the selection vector when there is one.
EffectiveRows == IF e_sel = NullPtr THEN e_batch.num_rows ELSE e_sel.num_slots

\* C11: in both Evaluate entry points a batch whose schema is not
\* structurally equal to the schema bound at build time yields an
\* invalid-argument failure, whatever else is passed, and the compiled code
\* is not executed.
C11_SchemaMismatchRejected ==
  (e_pc # "idle" /\ e_batch.schema.fields # e_proj.schema_.fields) =>
    (ReturnedInvalid /\ ~Executed)

\* A batch of nine rows with another schema was rejected with ample buffer
\* sets for every output field and a selection vector.
C11_Witness ==
  /\ e_pc = "done"
  /\ e_path = "buffers"
  /\ e_batch.schema = SchemaB
  /\ e_batch.num_rows = 9
  /\ e_sel # NullPtr
  /\ Len(e_vecs) = Len(e_proj.output_fields_)
  /\ \A i \in 1..Len(e_vecs) : e_vecs[i] # NullPtr /\ Len(e_vecs[i].buffers) = 3
  /\ e_status.code = "Invalid"

\* C12: in both Evaluate entry points a batch with zero rows yields an
\* invalid-argument failure, with or without a selection vector, and the
\* compiled code is not executed.
C12_EmptyBatchRejected ==
  (e_pc # "idle" /\ e_batch.num_rows = 0) => (ReturnedInvalid /\ ~Executed)

\* An empty batch of the bound schema was rejected by the allocating
\* Evaluate, called with a selection vector of two slots, a pool and a list.
C12_Witness ==
  /\ e_pc = "done"
  /\ e_path = "alloc"
  /\ e_batch.schema.fields = e_proj.schema_.fields
  /\ e_batch.num_rows = 0
  /\ e_sel # NullPtr
  /\ e_pool = PoolBig
  /\ e_status = StatusInvalid("RecordBatch must be non-empty.")

\* The output types the claims call supported: fixed-width numeric or
\* decimal, and variable-length binary or text.
SupportedOutputType(type) ==
  DataTypeId(type) \in {"BOOL", "INT32", "DECIMAL", "BINARY", "STRING"}

\* Some buffer set callers supply passes the capacity check for the field
\* and one row.
SomeBufferSetPasses(field) ==
  \E a \in EvalArrayDatas :
    ValidateArrayDataCapacity(a, field, 1, "null").status = StatusOK

\* C15: an output type that is neither fixed-width numeric or decimal nor
\* variable-length binary or text is refused with an invalid-argument
\* failure by the allocating path and by the caller-supplied-buffer path
\* alike, the compiled code is not executed, and the two paths accept the
\* same types.
C15_UnsupportedTypeRejected ==
  /\ \A i \in 1..Len(e_trace) :
       LET field == e_proj.output_fields_[e_trace[i].arg + 1]
       IN  ( /\ e_trace[i].op \in {"AllocArrayData", "ValidateArrayDataCapacity"}
             /\ ~SupportedOutputType(field.type) ) =>
             /\ i = Len(e_trace)
             /\ ReturnedInvalid
  /\ (e_pc # "idle" /\ \E i \in 1..Len(e_proj.output_fields_) :
                         ~SupportedOutputType(e_proj.output_fields_[i].type))
       => ~Executed
  /\ \A i \in 1..Len(e_proj.output_fields_) :
       LET field == e_proj.output_fields_[i]
       IN  /\ SomeBufferSetPasses(field) <=> SupportedOutputType(field.type)
           /\ AllocArrayData(field.type, 1, PoolBig).status = StatusOK
                <=> SupportedOutputType(field.type)

\* Both paths refused the list column of a projector after accepting its
\* int32 column: here the allocating path.
C15_Witness ==
  /\ e_pc = "done"
  /\ e_path = "alloc"
  /\ Len(e_trace) = 3
  /\ e_trace[3] = EvalEv("AllocArrayData", 1, 9)
  /\ DataTypeId(e_proj.output_fields_[2].type) = "LIST"
  /\ e_status = StatusInvalid("Unsupported output data type")

\* C16: when the allocating Evaluate succeeds the caller's list holds one
\* array per output field, in the order of the fields, which is the order
\* of the expressions, each of the effective row count, and nothing of what
\* it held before.
C16_OutputListReplaced ==
  (e_pc = "done" /\ e_path = "alloc" /\ e_status = StatusOK) =>
    /\ Len(e_output) = Len(e_proj.llvm_generator_.exprs)
    /\ \A i \in 1..Len(e_output) :
         /\ e_output[i].type = e_proj.llvm_generator_.exprs[i].result.type
         /\ e_output[i].type = e_proj.output_fields_[i].type
         /\ e_output[i].length = EffectiveRows

\* A second successful call, on a selection of two rows, replaced the two
\* arrays of nine rows the list held.
C16_Witness ==
  /\ e_pc = "done"
  /\ e_path = "alloc"
  /\ e_status = StatusOK
  /\ Len(e_before) = 2
  /\ e_before[1].length = 9
  /\ e_sel # NullPtr
  /\ Len(e_output) = 2
  /\ e_output[1].length = 2

\* C20: the row count given to every column's capacity check or allocation
\* is the effective row count of the call, the same for all its columns.
C20_EffectiveRowCountUsed ==
  /\ \A i \in 1..Len(e_trace) :
       e_trace[i].op \in {"AllocArrayData", "ValidateArrayDataCapacity"} =>
         e_trace[i].n = EffectiveRows
  /\ e_path = "alloc" => \A i \in 1..Len(e_vecs) : e_vecs[i].length = EffectiveRows

\* Both columns of a call on a batch of nine rows and a selection of two
\* were checked for two rows.
C20_Witness ==
  /\ e_pc = "done"
  /\ e_path = "buffers"
  /\ e_status = StatusOK
  /\ e_batch.num_rows = 9
  /\ e_sel # NullPtr
  /\ \E i, j \in 1..Len(e_trace) :
       /\ e_trace[i] = EvalEv("ValidateArrayDataCapacity", 0, 2)
       /\ e_trace[j] = EvalEv("ValidateArrayDataCapacity", 1, 2)

\* The capacity contract of a column buffer set for a field and n rows: at
\* least two buffers, a bitmap of a bit per row, and then either an offsets
\* buffer of n + 1 32-bit offsets followed by a resizable data buffer, or a
\* data buffer of n values of the field's width.
MeetsCapacityContract(array_data, field, n) ==
  LET buffers == array_data.buffers
      id == DataTypeId(field.type)
  IN  /\ Len(buffers) >= 2
      /\ buffers[1].capacity * 8 >= n
      /\ \/ /\ id \in {"BINARY", "STRING"}
            /\ buffers[2].capacity * 8 >= (n + 1) * 32
            /\ Len(buffers) >= 3
            /\ buffers[3].resizable
         \/ /\ id \in {"BOOL", "INT32", "DECIMAL"}
            /\ buffers[2].capacity * 8 >= n * bit_width(field.type)

\* The checks of the caller-supplied-buffer Evaluate up to and including
\* the null check and the capacity check of its first k buffer sets.
ChecksUpTo(k) ==
  <<EvalEv("ValidateEvaluateArgsCommon", 0, 0), EvalEv("size", 0, 0)>>
  \o [j \in 1..(2 * k) |->
        IF j % 2 = 1 THEN EvalEv("null", (j - 1) \div 2, 0)
        ELSE EvalEv("ValidateArrayDataCapacity", (j - 2) \div 2, EffectiveRows)]

\* Buffer set i of the call is not null and meets the contract of field i.
ColumnPasses(i) ==
  /\ e_vecs[i] # NullPtr
  /\ MeetsCapacityContract(e_vecs[i], e_proj.output_fields_[i], EffectiveRows)

\* Every check of the caller-supplied-buffer Evaluate passes on the call.
AllChecksPass ==
  /\ e_batch.schema.fields = e_proj.schema_.fields
  /\ e_batch.num_rows # 0
  /\ Len(e_vecs) = Len(e_proj.output_fields_)
  /\ \A i \in 1..Len(e_vecs) : ColumnPasses(i)

\* C17: in the caller-supplied-buffer Evaluate the compiled code is executed
\* if and only if the schema check, the row check, the count of the buffer
\* sets and the null check and capacity check of every buffer set in
\* declared order all pass, and after all of them; the first check that
\* fails returns an invalid-argument failure and nothing is checked or
\* executed after it.
C17_ExecuteIffAllChecksPass ==
  (e_path = "buffers" /\ e_pc \in {"done", "fault"}) =>
    IF AllChecksPass
    THEN e_trace = Append(ChecksUpTo(Len(e_vecs)), EvalEv("Execute", 0, 0))
    ELSE /\ ReturnedInvalid
         /\ ~Executed
         /\ e_batch.schema.fields # e_proj.schema_.fields \/ e_batch.num_rows = 0
              => e_trace = <<EvalEv("ValidateEvaluateArgsCommon", 0, 0)>>
         /\ ( /\ e_batch.schema.fields = e_proj.schema_.fields
              /\ e_batch.num_rows # 0
              /\ Len(e_vecs) # Len(e_proj.output_fields_) )
              => e_trace = ChecksUpTo(0)
         /\ ( /\ e_batch.schema.fields = e_proj.schema_.fields
              /\ e_batch.num_rows # 0
              /\ Len(e_vecs) = Len(e_proj.output_fields_) )
              => LET first == CHOOSE i \in 1..Len(e_vecs) :
                                /\ ~ColumnPasses(i)
                                /\ \A j \in 1..(i - 1) : ColumnPasses(j)
                 IN  e_trace = IF e_vecs[first] = NullPtr
                               THEN Append(ChecksUpTo(first - 1),
                                           EvalEv("null", first - 1, 0))
                               ELSE ChecksUpTo(first)

\* --------------------------- the two shape computations on their own (SpecShape)
ShapeInit ==
  /\ MakeInit
  /\ thread_id_hash = [t \in Threads |-> 5]
  /\ KeyIdle
  /\ e_proj = NullPtr
  /\ EvalIdle
  /\ CapIdle
  /\ ShardIdle

\* The fields whose buffers are shaped: bool, int32, decimal and utf8.
ShapeFields == {FieldBool, FieldI32, FieldDec, FieldStr}

\* A capacity no row count up to MaxRows needs.
AmpleCapacity == MaxRows * 16 + 64

\* The buffer set of a field as its layout asks (bitmap, offsets for
\* binary-like types, data), ample but for buffer k, which holds c bytes.
ProbeArrayData(field, k, c) ==
  LET count == IF is_binary_like(DataTypeId(field.type)) THEN 3 ELSE 2
  IN  ArrayDataMake(field.type, 0,
        [i \in 1..count |->
           Buffer(IF i = k THEN c ELSE AmpleCapacity, i = 3)])

\* ValidateArrayDataCapacity is called on a buffer set.
ShapeValidate(field, n, k, c) ==
  /\ c_a = NullPtr
  /\ c_alloc = NullPtr
  /\ k <= Len(ProbeArrayData(field, k, c).buffers)
  /\ c_field' = field
  /\ c_n' = n
  /\ c_a' = ProbeArrayData(field, k, c)
  /\ \E garbage \in GarbageReads :
       c_res_a' = ValidateArrayDataCapacity(ProbeArrayData(field, k, c), field, n, garbage)
  /\ UNCHANGED <<c_b, c_res_b, c_alloc, make_vars, key_vars, eval_vars, shard_vars>>

\* AllocArrayData is called.
ShapeAlloc(field, n, pool) ==
  /\ c_a = NullPtr
  /\ c_alloc = NullPtr
  /\ c_alloc' = [id |-> 1, type |-> field.type, num_records |-> n, pool |-> pool,
                 result |-> AllocArrayData(field.type, n, pool)]
  /\ UNCHANGED <<c_field, c_n, c_a, c_b, c_res_a, c_res_b, make_vars, key_vars,
                 eval_vars, shard_vars>>

\* ValidateArrayDataCapacity is called on the buffer set AllocArrayData has
\* just produced, for a field of its type and its row count.
ShapeValidateAllocated(field) ==
  /\ c_a = NullPtr
  /\ c_alloc # NullPtr
  /\ c_alloc.result.status = StatusOK
  /\ field.type = c_alloc.type
  /\ c_field' = field
  /\ c_n' = c_alloc.num_records
  /\ c_a' = c_alloc.result.array_data
  /\ \E garbage \in GarbageReads :
       c_res_a' = ValidateArrayDataCapacity(c_alloc.result.array_data, field,
                                            c_alloc.num_records, garbage)
  /\ UNCHANGED <<c_b, c_res_b, c_alloc, make_vars, key_vars, eval_vars, shard_vars>>

ShapeNext ==
  \/ \E field \in ShapeFields, n \in 0..MaxRows, k \in 1..3,
        c \in 0..(MaxRows * 16 + 1) :
       ShapeValidate(field, n, k, c)
  \/ \E field \in ShapeFields, n \in 0..MaxRows, pool \in {PoolBig, PoolSmall} :
       ShapeAlloc(field, n, pool)
  \/ \E field \in ShapeFields : ShapeValidateAllocated(field)

SpecShape == ShapeInit /\ [][ShapeNext]_vars

\* The least number of bytes that hold the bits.
CeilBytes(bits) == CHOOSE k \in 0..bits : 8 * k >= bits /\ 8 * (k - 1) < bits

\* C14: for every row count n and supported type the allocator and the
\* validator use the same minimum sizes: ceil(n/8) bytes of bitmap,
\* ceil((n+1)*32/8) bytes of offsets for variable-length types,
\* ceil(n*w/8) bytes of data for a fixed-width type of w bits, and no
\* minimum for variable-length data, which is allocated with length 0.
C14_SameMinimumSizes ==
  /\ c_a # NullPtr =>
       LET varlen == DataTypeId(c_field.type) \in {"BINARY", "STRING"}
       IN  c_res_a.status = StatusOK <=>
             /\ c_a.buffers[1].capacity >= CeilBytes(c_n)
             /\ varlen => c_a.buffers[2].capacity >= CeilBytes((c_n + 1) * 32)
             /\ ~varlen => c_a.buffers[2].capacity
                              >= CeilBytes(c_n * bit_width(c_field.type))
  /\ (c_alloc # NullPtr /\ c_alloc.result.status = StatusOK) =>
       LET n == c_alloc.num_records
           varlen == is_binary_like(DataTypeId(c_alloc.type))
           buffers == c_alloc.result.array_data.buffers
       IN  /\ c_alloc.result.sizes =
                IF varlen THEN <<CeilBytes(n), CeilBytes((n + 1) * 32), 0>>
                ELSE <<CeilBytes(n), CeilBytes(n * bit_width(c_alloc.type))>>
           /\ Len(buffers) = Len(c_alloc.result.sizes)
           /\ \A i \in 1..Len(buffers) : buffers[i].capacity >= c_alloc.result.sizes[i]

\* The validator passed an offsets buffer of exactly 40 bytes for nine rows
\* of text with a data buffer of no capacity.
C14_Witness ==
  /\ c_a # NullPtr
  /\ c_field = FieldStr
  /\ c_n = 9
  /\ c_a.buffers[2].capacity = 40
  /\ c_res_a.status = StatusOK

\* ------------------------------- capacity checks under comparison (SpecCap)
\* The buffers of the sets compared.
CapBuffers == {Buffer(c, r) : c \in {0, 4, 8}, r \in BOOLEAN}

\* The column buffer sets compared: one to three buffers.
CapArrayDatas ==
  {ArrayDataMake(<<>>, 0, buffers) :
     buffers \in {<<a>> : a \in CapBuffers}
                 \cup {<<a, b>> : a \in CapBuffers, b \in CapBuffers}
                 \cup {<<a, b, c>> : a \in CapBuffers, b \in CapBuffers, c \in CapBuffers}}

\* The fields they are checked for: int32, utf8 and list.
CapFields == {FieldI32, FieldStr, FieldList}

\* ValidateArrayDataCapacity is called on a first buffer set.
CapValidateA(field, n, a) ==
  /\ c_a = NullPtr
  /\ c_field' = field
  /\ c_n' = n
  /\ c_a' = a
  /\ \E garbage \in GarbageReads :
       c_res_a' = ValidateArrayDataCapacity(a, field, n, garbage)
  /\ UNCHANGED <<c_b, c_res_b, c_alloc, make_vars, key_vars, eval_vars, shard_vars>>

\* It is called again, for the same field and row count, on a second set
\* of as many buffers.
CapValidateB(b) ==
  /\ c_a # NullPtr
  /\ c_b = NullPtr
  /\ Len(b.buffers) = Len(c_a.buffers)
  /\ c_b' = b
  /\ \E garbage \in GarbageReads :
       c_res_b' = ValidateArrayDataCapacity(b, c_field, c_n, garbage)
  /\ UNCHANGED <<c_field, c_n, c_a, c_res_a, c_alloc, make_vars, key_vars, eval_vars, shard_vars>>

CapNext ==
  \/ \E field \in CapFields, n \in 0..MaxCapRows, a \in CapArrayDatas :
       CapValidateA(field, n, a)
  \/ \E b \in CapArrayDatas : CapValidateB(b)

SpecCap == ShapeInit /\ [][CapNext]_vars

\* C13: for a variable-length output field, a buffer set of two or more
\* buffers whose data buffer is not resizable fails the capacity check with
\* an invalid-argument failure, whatever the capacities of its buffers.
C13_NonResizableDataRejected ==
  ( /\ c_a # NullPtr
    /\ DataTypeId(c_field.type) \in {"BINARY", "STRING"}
    /\ Len(c_a.buffers) >= 2
    /\ ~c_a.buffers[Len(c_a.buffers)].resizable
    /\ Len(c_a.buffers) >= 3 => ~c_a.buffers[3].resizable )
  => c_res_a.status.code = "Invalid"

\* Buffer set b has the buffers of a, as resizable and at least as large.
AtLeastAsLarge(b, a) ==
  /\ Len(b.buffers) = Len(a.buffers)
  /\ \A i \in 1..Len(a.buffers) :
       /\ b.buffers[i].resizable = a.buffers[i].resizable
       /\ b.buffers[i].capacity >= a.buffers[i].capacity

\* C19: the capacity check is a check of minimum capacity: a buffer set of
\* fewer than two buffers fails at once, before any buffer is read, for
\* every type; and when a buffer set passes for a field and row count,
\* every set of as many buffers, as resizable and at least as large,
\* passes for them too.
C19_MinimumCapacityOnly ==
  /\ (c_a # NullPtr /\ Len(c_a.buffers) < 2) =>
       (c_res_a.status.code = "Invalid" /\ c_res_a.reads = <<>>)
  /\ (c_b # NullPtr /\ c_res_a.status = StatusOK /\ AtLeastAsLarge(c_b, c_a)) =>
       c_res_b.status = StatusOK

\* C21: the allocator and the validator never disagree: for every supported
\* output type and row count the buffer set AllocArrayData produces passes
\* ValidateArrayDataCapacity for a field of that type and that row count; it
\* holds the bitmap first, the offsets second for variable-length types,
\* and one resizable data buffer last.
C21_AllocatedPassesValidation ==
  (c_alloc # NullPtr /\ c_alloc.result.status = StatusOK) =>
    LET buffers == c_alloc.result.array_data.buffers
        varlen == is_binary_like(DataTypeId(c_alloc.type))
    IN  /\ Len(buffers) = IF varlen THEN 3 ELSE 2
        /\ buffers[Len(buffers)].resizable
        /\ \A i \in 1..(Len(buffers) - 1) : ~buffers[i].resizable
        /\ c_a = c_alloc.result.array_data => c_res_a.status = StatusOK

\* The three buffers allocated for nine rows of text passed the validator.
C21_Witness ==
  /\ c_alloc # NullPtr
  /\ c_alloc.type = FieldStr.type
  /\ c_alloc.num_records = 9
  /\ c_a = c_alloc.result.array_data
  /\ c_field = FieldStr
  /\ c_n = 9
  /\ c_res_a.status = StatusOK

\* C23: capacity validation never reads a buffer at an index greater than
\* or equal to the number of buffers supplied, for every field type and
\* buffer count; a variable-length field supplied with exactly two buffers
\* gets an invalid-argument failure and no third buffer is read.
C23_ReadsWithinBufferSet ==
  c_a # NullPtr =>
    /\ \A i \in 1..Len(c_res_a.reads) : c_res_a.reads[i] < Len(c_a.buffers)
    /\ (is_binary_like(DataTypeId(c_field.type)) /\ Len(c_a.buffers) = 2)
         => c_res_a.status.code = "Invalid"

\* C24: when the allocating Evaluate fails at any step (argument check,
\* null output or pool, allocation or unsupported type, Execute), the
\* caller's output list is exactly what it was before the call; the list
\* changes only in the step where Execute has succeeded.
C24_FailureLeavesOutputAlone ==
  e_path = "alloc" =>
    /\ (e_pc = "done" /\ e_status # StatusOK) => e_output = e_before
    /\ e_pc \in {"alloc", "execute", "fault"} => e_output = e_before

\* A list the caller had filled survived an allocating call whose Execute
\* failed.
C24_Witness ==
  /\ e_path = "alloc"
  /\ e_pc = "done"
  /\ e_status.code = "ExecutionError"
  /\ Len(e_vecs) >= 1
  /\ Len(e_before) >= 1
  /\ e_output = e_before

\* ------------------------------------- many threads, one cache (SpecShard)
\* The number of worker threads; more than kNumShards, so that some share
\* a shard.
MaxShardThreads == 18

\* std::hash<std::thread::id> of the worker threads: distinct threads,
\* distinct values.
ShardThreadHashes == 0..(MaxShardThreads - 1)

\* The build requests worker threads make: with and without a " like("
\* expression, one that fails validation and one that fails the argument
\* checks.
ShardRequests ==
  { [schema |-> SchemaA, exprs |-> <<ExprLike>>, configuration |-> ConfO, mode |-> "MODE_NONE"],
    [schema |-> SchemaA, exprs |-> <<ExprAdd, ExprLike>>, configuration |-> ConfO,
     mode |-> "MODE_UINT16"],
    [schema |-> SchemaA, exprs |-> <<ExprAdd>>, configuration |-> ConfO, mode |-> "MODE_NONE"],
    [schema |-> SchemaA, exprs |-> <<ExprILike>>, configuration |-> ConfO, mode |-> "MODE_NONE"],
    [schema |-> SchemaA, exprs |-> <<ExprAdd, ExprBad, ExprLike>>, configuration |-> ConfO,
     mode |-> "MODE_NONE"],
    [schema |-> SchemaA, exprs |-> <<>>, configuration |-> ConfO, mode |-> "MODE_NONE"] }

\* The cache is empty; the worker threads all make the same request.
ShardInit ==
  /\ MakeInit
  /\ thread_id_hash = [t \in Threads |-> 5]
  /\ KeyIdle
  /\ e_proj = NullPtr
  /\ EvalIdle
  /\ CapIdle
  /\ s_req \in ShardRequests
  /\ s_holders = 0
  /\ s_hash = 0
  /\ s_status = StatusPending
  /\ s_uniq = [h \in ShardThreadHashes |-> {}]

\* The worker thread whose id hashes to h calls Make with the request and
\* the call runs to its return: argument checks, key, lookup, and on a miss
\* backend, validation, build and registration.  Worker threads start one
\* after the other, each once its predecessor holds a projector; a thread
\* may call again at any time.
ShardMake(h) ==
  /\ h <= s_holders
  /\ s_hash' = h
  /\ LET st == MakeArgsCheck(s_req.schema, s_req.exprs, s_req.configuration)
         key == ProjectorCacheKey(s_req.schema, s_req.configuration, s_req.exprs,
                                  s_req.mode, h)
         found == MakeCachedProjector(cache, key)
         v == MakeValidateLoop(s_req.schema, s_req.exprs, 1, <<>>)
         holds == IF h = s_holders THEN s_holders + 1 ELSE s_holders
     IN  IF st.code # "OK"
         THEN /\ s_status' = st
              /\ UNCHANGED <<cache, next_id, s_holders, s_uniq>>
         ELSE /\ s_uniq' = [s_uniq EXCEPT ![h] = @ \cup {key.uniqifier_}]
              /\ IF ~IsNull(found)
                 THEN /\ s_status' = StatusOK
                      /\ s_holders' = holds
                      /\ UNCHANGED <<cache, next_id>>
                 ELSE \E backend_ok \in BOOLEAN, build_ok \in BOOLEAN, ms \in ElapsedMillis :
                        IF ~backend_ok
                        THEN /\ s_status' = [code |-> "CodeGenError",
                                             msg |-> "LLVMGenerator::Make failed"]
                             /\ UNCHANGED <<cache, next_id, s_holders>>
                        ELSE IF v.status.code # "OK"
                        THEN /\ s_status' = v.status
                             /\ UNCHANGED <<cache, next_id, s_holders>>
                        ELSE IF MakeAfterBuild(build_ok) # "insert"
                        THEN /\ s_status' = [code |-> "CodeGenError", msg |-> "Build failed"]
                             /\ UNCHANGED <<cache, next_id, s_holders>>
                        ELSE /\ cache' = MakeRegister(cache, key,
                                    NewProjector(next_id,
                                      [id |-> 1, built |-> TRUE, exprs |-> s_req.exprs,
                                       mode |-> s_req.mode],
                                      s_req.schema, MakeOutputFields(s_req.exprs),
                                      s_req.configuration), ms)
                             /\ next_id' = next_id + 1
                             /\ s_status' = StatusOK
                             /\ s_holders' = holds
  /\ UNCHANGED <<s_req, calls, thread_id_hash, pc, args, cache_key, cached_projector,
                 llvm_gen, elapsed, status, projector, trace, epoch, puts, returned,
                 raced, key_vars, eval_vars, cap_vars>>

ShardNext == \E h \in ShardThreadHashes : ShardMake(h)

SpecShard == ShardInit /\ [][ShardNext]_vars

\* What identifies a build request in a key: the schema's fields, the
\* configuration, the ordered expression strings and the mode.
TupleOf(key) ==
  <<key.schema_.fields, key.configuration_.optimize, key.expressions_as_strings_,
    key.mode_>>

\* The entries the cache holds for the tuple of key.
EntriesOfTuple(key) == {f \in cache : TupleOf(f.key) = TupleOf(key)}

====
